---- MODULE Spec2Model ----
(***************************************************************************)
(* The travelling-salesman notebook: the cells that make the data, build   *)
(* the integer program (edge variables, objective, degree constraints,     *)
(* order variables, Miller-Tucker-Zemlin constraints), call the solver and *)
(* follow the selected edges from 'org' to print the tour and its length.  *)
(* One action per cell; the tour loop is one action per pass of the while  *)
(* loop.  The solver is an external library: Solve* state what it returns. *)
(***************************************************************************)
EXTENDS Integers, Sequences, FiniteSets, TLC

\* ---------------------------------------------------------------- bounds

\* The largest number of sites of a run.
MaxSites == 4

\* By how much the entries of a generated distance matrix lie above the lowest
\* value, summed over the entries.
MaxExcess == 3

\* How many ordered pairs a supplied distance mapping lacks at most.
MaxMissing == 1

\* By how much the entries of a supplied distance mapping lie above the lowest
\* value, summed over the entries.
MaxSuppliedExcess == 1

\* How many edge variables a solve that found no optimum leaves at 1.
MaxLeft == 2

\* ------------------------------------------------------------- constants

\* sites = ['org','A','B',...]: the names of the notebook's list.
SiteNames == <<"org", "A", "B", "C", "D", "E", "F", "G", "H", "I", "J", "K">>

\* The origin the subtour cell and the tour cell name literally.
Origin == "org"

\* np.random.randint(10,50): the lowest distance.
DistLow == 10

\* np.random.randint(10,50): the bound every distance lies below.
DistHigh == 50

\* varValue of a variable the solver has not set (None).
NoValue == -1

\* LpStatus
LpStatusOptimal == "Optimal"
LpStatusInfeasible == "Infeasible"
LpStatusNotSolved == "Not Solved"
LpStatusUndefined == "Undefined"

\* ------------------------------------------------------------- helpers

Range(s) == {s[i] : i \in 1..Len(s)}

\* list.index(v): the first position of v (the caller checks v is in s).
IndexOf(s, v) == CHOOSE i \in 1..Len(s) : s[i] = v /\ \A j \in 1..(i-1) : s[j] # v

\* list.pop(i): the list without its i-th element.
PopAt(s, i) == SubSeq(s, 1, i-1) \o SubSeq(s, i+1, Len(s))

RECURSIVE SumOver(_, _)
\* sum of f[k] over the keys ks
SumOver(f, ks) ==
    IF ks = {} THEN 0
    ELSE LET k == CHOOSE k \in ks : TRUE
         IN  f[k] + SumOver(f, ks \ {k})

RECURSIVE SumSeq(_)
\* sum(list)
SumSeq(s) == IF s = <<>> THEN 0 ELSE Head(s) + SumSeq(Tail(s))

\* The site lists of the runs: the first n names, or n names without 'org'.
SiteLists ==
    {SubSeq(SiteNames, 1, n) : n \in 1..MaxSites}
    \cup {SubSeq(SiteNames, 2, n+1) : n \in 2..(MaxSites-1)}

\* The site lists the notebook is written for: 'org' and at least two more.
ValidSiteLists == {SubSeq(SiteNames, 1, n) : n \in 3..MaxSites}

\* ------------------------------------------------------------- the data

\* for a in sites for b in sites if a!=b
DistancePairsMutSorted(S) ==
    {<<S[q[1]], S[q[2]]>> : q \in {r \in (1..Len(S)) \X (1..Len(S)) : r[1] < r[2]}}

DistancePairs(S) == {p \in Range(S) \X Range(S) : p[1] # p[2]}

\* The draw in which every entry is the lowest distance.
FlatDistances(S) == [p \in DistancePairs(S) |-> DistLow]

RECURSIVE RandomDistances(_, _)
\* The draws of the generator, every entry in DistLow..(DistHigh-1), whose
\* entries lie above the lowest distance by e in total at most: a draw of
\* total e-1 at most, or one of those with an entry raised by one.
RandomDistances(S, e) ==
    IF e = 0 THEN {FlatDistances(S)}
    ELSE UNION {{d} \cup {[d EXCEPT ![p] = @ + 1] :
                             p \in {q \in DistancePairs(S) : d[q] + 1 < DistHigh}} :
                   d \in RandomDistances(S, e - 1)}

\* Every ordered pair of distinct sites has a distance.
IsComplete(S, d) == \A a, b \in Range(S) : a # b => <<a, b>> \in DOMAIN d

\* ---------------------------------------------------------- the program

VARIABLES
    pc,          \* the cell to run next
    sites,       \* the list of sites
    distances,   \* dict: ordered pair -> distance
    prob,        \* LpProblem: objective coefficients and constraints
    x,           \* dict: ordered pair -> varValue of the edge variable
    u,           \* dict: site -> bounds of the order variable
    status,      \* LpStatus[prob.status]
    sites_left,  \* the tour cell's working copy of sites
    org,         \* the tour cell's current site
    tour,        \* the tour built so far
    tour_legs,   \* the distances of the tour's legs
    raised,      \* the exception that ended the run, or "none"
    total,       \* sum(tour_legs), the last cell's output
    spinning,    \* a pass of the while loop found no next site: it repeats for ever
    given        \* the cycle a test encoded in place of a solve, or <<>>

vars == <<pc, sites, distances, prob, x, u, status, sites_left, org, tour,
          tour_legs, total, raised, spinning, given>>

N == Len(sites)

EmptyDict == [p \in {} |-> 0]

EmptyProb == [objective |-> EmptyDict, constraints |-> {}]

InitWith(lists) ==
    /\ sites \in lists
    /\ pc = "distances"
    /\ distances = EmptyDict
    /\ prob = EmptyProb
    /\ x = EmptyDict
    /\ u = EmptyDict
    /\ status = LpStatusNotSolved
    /\ sites_left = <<>>
    /\ org = Origin
    /\ tour = <<>>
    /\ tour_legs = <<>>
    /\ total = NoValue
    /\ raised = "none"
    /\ spinning = FALSE
    /\ given = <<>>

Init == InitWith(SiteLists)

InitValid == InitWith(ValidSiteLists)

\* distances = dict(((a,b), np.random.randint(10,50)) ...), drawn from family
GenerateDistances(family) ==
    /\ pc = "distances"
    /\ distances' \in family
    /\ pc' = "variables"
    /\ UNCHANGED <<sites, prob, x, u, status, sites_left, org, tour, tour_legs,
                   total, raised, spinning, given>>

\* The distance mapping is supplied in place of the generated one: the
\* entries of some draw, without the pairs of miss.
SupplyDistances ==
    /\ pc = "distances"
    /\ \E miss \in {m \in SUBSET DistancePairs(sites) : Cardinality(m) <= MaxMissing} :
          \E d \in RandomDistances(sites, MaxSuppliedExcess) :
              distances' = [p \in DistancePairs(sites) \ miss |-> d[p]]
    /\ pc' = "variables"
    /\ UNCHANGED <<sites, prob, x, u, status, sites_left, org, tour, tour_legs,
                   total, raised, spinning, given>>

\* x = LpVariable.dicts('x', distances, 0, 1, LpBinary)
CreateVariables ==
    /\ pc = "variables"
    /\ x' = [p \in DOMAIN distances |-> NoValue]
    /\ pc' = "objective"
    /\ UNCHANGED <<sites, distances, prob, u, status, sites_left, org, tour,
                   tour_legs, total, raised, spinning, given>>

\* x[(i,j)]*distances[(i,j)]: the coefficient of x[(i,j)] in cost
CostCoefficientMutSwapped(d, p) == d[<<p[2], p[1]>>]

CostCoefficient(d, p) == d[p]

\* cost = lpSum([... for (i,j) in distances]); prob += cost
Objective ==
    /\ pc = "objective"
    /\ prob' = [prob EXCEPT !.objective =
                   [p \in DOMAIN distances |-> CostCoefficient(distances, p)]]
    /\ pc' = "degree"
    /\ UNCHANGED <<sites, distances, x, u, status, sites_left, org, tour,
                   tour_legs, total, raised, spinning, given>>

\* --------------------------------------------------------- constraints

\* [ x[(i,k)] for i in sites if (i,k) in x ]
InboundTerms(S, keys, k) == {<<i, k>> : i \in Range(S)} \cap keys

\* [ x[(k,i)] for i in sites if (k,i) in x ]
OutboundTerms(S, keys, k) == {<<k, i>> : i \in Range(S)} \cap keys

\* The two constraints of every site: lpSum(...) == 1.
DegreeConstraintsOf(S, keys) ==
    {[kind |-> "degree", a |-> k, b |-> k, terms |-> InboundTerms(S, keys, k),
      big |-> 0] : k \in Range(S)}
    \cup
    {[kind |-> "degree", a |-> k, b |-> k, terms |-> OutboundTerms(S, keys, k),
      big |-> 0] : k \in Range(S)}

\* for k in sites: prob += (inbound) == 1; prob += (outbound) == 1
DegreeConstraints ==
    /\ pc = "degree"
    /\ prob' = [prob EXCEPT !.constraints =
                   @ \cup DegreeConstraintsOf(sites, DOMAIN x)]
    /\ pc' = "order"
    /\ UNCHANGED <<sites, distances, x, u, status, sites_left, org, tour,
                   tour_legs, total, raised, spinning, given>>

\* len(sites)-1: the upper bound of the order variables
OrderUpperMutShort(S) == Len(S) - 2

OrderUpper(S) == Len(S) - 1

\* u = LpVariable.dicts('u', sites, 0, len(sites)-1, LpInteger)
OrderBoundsOf(S) == [s \in Range(S) |-> [lo |-> 0, hi |-> OrderUpper(S)]]

OrderVariables ==
    /\ pc = "order"
    /\ u' = OrderBoundsOf(sites)
    /\ pc' = "subtour"
    /\ UNCHANGED <<sites, distances, prob, x, status, sites_left, org, tour,
                   tour_legs, total, raised, spinning, given>>

\* if i != j and (i != 'org' and j!= 'org') and (i,j) in x
MtzAppliesMutAllSites(i, j, keys) == i # j /\ <<i, j>> \in keys

MtzApplies(i, j, keys) ==
    i # j /\ (i # Origin /\ j # Origin) /\ <<i, j>> \in keys

\* u[i] - u[j] <= (N)*(1-x[(i,j)]) - 1, for the pairs the condition keeps
MtzConstraintsOf(S, keys) ==
    {[kind |-> "mtz", a |-> p[1], b |-> p[2], terms |-> {p}, big |-> Len(S)] :
        p \in {q \in Range(S) \X Range(S) : MtzApplies(q[1], q[2], keys)}}

\* N=len(sites); for i in sites: for j in sites: ... prob += ...
SubtourElimination ==
    /\ pc = "subtour"
    /\ prob' = [prob EXCEPT !.constraints =
                   @ \cup MtzConstraintsOf(sites, DOMAIN x)]
    /\ pc' = "solve"
    /\ UNCHANGED <<sites, distances, x, u, status, sites_left, org, tour,
                   tour_legs, total, raised, spinning, given>>

\* ------------------------------------------------------------ the solver

\* Whether values xv, uv meet constraint c.
Holds(c, xv, uv) ==
    IF c.kind = "degree"
    THEN SumOver(xv, c.terms) = 1
    ELSE uv[c.a] - uv[c.b] <= c.big * (1 - xv[<<c.a, c.b>>]) - 1

\* The 0/1 assignments to the edge variables.
Assignments(keys) == [keys -> {0, 1}]

\* The integer assignments to the order variables within their bounds.
OrderValues(U) ==
    LET any == U[CHOOSE s \in DOMAIN U : TRUE]
    IN  {uv \in [DOMAIN U -> any.lo..any.hi] :
            \A s \in DOMAIN U : U[s].lo <= uv[s] /\ uv[s] <= U[s].hi}

\* xv meets the degree constraints, and some order values meet the rest with it.
Satisfiable(cons, U, xv) ==
    /\ \A c \in cons : c.kind = "degree" => Holds(c, xv, EmptyDict)
    /\ \E uv \in OrderValues(U) : \A c \in cons : c.kind = "mtz" => Holds(c, xv, uv)

FeasibleRegion(cons, U, keys) ==
    {xv \in Assignments(keys) : Satisfiable(cons, U, xv)}

\* The value of the objective at xv.
ObjectiveValue(obj, xv) ==
    SumOver([p \in DOMAIN obj |-> obj[p] * xv[p]], DOMAIN obj)

\* LpMinimize: the feasible assignments of least objective value.
Minimizers(obj, region) ==
    LET valued == {<<xv, ObjectiveValue(obj, xv)>> : xv \in region}
        least  == {p \in valued : \A q \in valued : p[2] <= q[2]}
    IN  {p[1] : p \in least}

\* The constraints the cells add for site list S when every pair has a distance.
ConstraintsOf(S) ==
    DegreeConstraintsOf(S, DistancePairs(S)) \cup MtzConstraintsOf(S, DistancePairs(S))

\* The feasible region of the model built from site list S with every
\* distance, its members listed once.
RegionOfList == [S \in SiteLists |->
    {xv : xv \in FeasibleRegion(ConstraintsOf(S), OrderBoundsOf(S),
                                DistancePairs(S))}]

\* The feasible region of prob (looked up when every distance is there).
Region ==
    IF DOMAIN x = DistancePairs(sites)
    THEN RegionOfList[sites]
    ELSE FeasibleRegion(prob.constraints, u, DOMAIN x)

\* prob.solve() finds an optimum.
SolveOptimal ==
    /\ pc = "solve"
    /\ Region # {}
    /\ x' \in Minimizers(prob.objective, Region)
    /\ status' = LpStatusOptimal
    /\ pc' = "tour"
    /\ UNCHANGED <<sites, distances, prob, u, sites_left, org, tour, tour_legs,
                   total, raised, spinning, given>>

\* The values a solve that found no optimum leaves in the edge variables:
\* 1 in at most MaxLeft of them, 0 in the others.
LeftValues(keys) ==
    {[p \in keys |-> IF p \in ones THEN 1 ELSE 0] :
        ones \in {o \in SUBSET keys : Cardinality(o) <= MaxLeft}}

\* prob.solve() finds the model infeasible; the variables hold what it left.
SolveInfeasible ==
    /\ pc = "solve"
    /\ Region = {}
    /\ x' \in LeftValues(DOMAIN x)
    /\ status' = LpStatusInfeasible
    /\ pc' = "tour"
    /\ UNCHANGED <<sites, distances, prob, u, sites_left, org, tour, tour_legs,
                   total, raised, spinning, given>>

\* prob.solve() ends without an answer (st); the variables hold what it left,
\* or nothing.
SolveFails(st) ==
    /\ pc = "solve"
    /\ x' \in LeftValues(DOMAIN x) \cup {x}
    /\ status' = st
    /\ pc' = "tour"
    /\ UNCHANGED <<sites, distances, prob, u, sites_left, org, tour, tour_legs,
                   total, raised, spinning, given>>

\* -------------------------------------------------------- the tour cell

\* sites_left = sites.copy(); org = 'org'; tour = []
\* tour.append(sites_left.pop(sites_left.index(org)))
TourStart ==
    /\ pc = "tour"
    /\ org' = Origin
    /\ IF Origin \in Range(sites)
       THEN /\ sites_left' = PopAt(sites, IndexOf(sites, Origin))
            /\ tour' = <<Origin>>
            /\ raised' = "none"
            /\ pc' = "while"
       ELSE /\ sites_left' = sites
            /\ tour' = <<>>
            /\ raised' = "ValueError"
            /\ pc' = "raised"
    /\ UNCHANGED <<sites, distances, prob, x, u, status, tour_legs, total,
                   spinning, given>>

\* x[(org,k)].varValue == 1
SelectedMutReversed(xv, cur, k) == xv[<<k, cur>>] = 1

Selected(xv, cur, k) == xv[<<cur, k>>] = 1

\* The for loop stops at position i: x has no variable for (cur, k), or the
\* variable's value is 1.
StopsAt(xv, cur, left, i) ==
    <<cur, left[i]>> \notin DOMAIN xv \/ Selected(xv, cur, left[i])

\* One pass of the body of: while len(sites_left) > 0
TourPass ==
    /\ pc = "while"
    /\ Len(sites_left) > 0
    /\ LET stops == {i \in 1..Len(sites_left) : StopsAt(x, org, sites_left, i)}
       IN  IF stops = {}
           THEN \* no k matched: the for loop ends, the while loop starts over
                /\ spinning' = TRUE
                /\ UNCHANGED <<sites_left, org, tour, raised, pc>>
           ELSE LET i == CHOOSE i \in stops : \A j \in stops : i <= j
                    k == sites_left[i]
                IN  IF <<org, k>> \notin DOMAIN x
                    THEN /\ raised' = "KeyError"
                         /\ pc' = "raised"
                         /\ UNCHANGED <<sites_left, org, tour, spinning>>
                    ELSE \* tour.append(sites_left.pop(sites_left.index(k))); org=k
                         /\ tour' = Append(tour, k)
                         /\ sites_left' = PopAt(sites_left, IndexOf(sites_left, k))
                         /\ org' = k
                         /\ UNCHANGED <<raised, pc, spinning>>
    /\ UNCHANGED <<sites, distances, prob, x, u, status, tour_legs, total, given>>

\* distances[(tour[i-1], tour[i])]
LegKeyMutBackward(t, i) == <<t[i], t[i-1]>>

LegKey(t, i) == <<t[i-1], t[i]>>

\* tour.append('org')
\* tour_legs = [distances[(tour[i-1], tour[i])] for i in range(1,len(tour))]
TourClose ==
    /\ pc = "while"
    /\ Len(sites_left) = 0
    /\ tour' = Append(tour, Origin)
    /\ IF \A i \in 2..Len(tour') : LegKey(tour', i) \in DOMAIN distances
       THEN /\ tour_legs' = [i \in 1..(Len(tour') - 1) |->
                                distances[LegKey(tour', i + 1)]]
            /\ pc' = "length"
            /\ UNCHANGED raised
       ELSE /\ raised' = "KeyError"
            /\ pc' = "raised"
            /\ UNCHANGED tour_legs
    /\ UNCHANGED <<sites, distances, prob, x, u, status, sites_left, org, total,
                   spinning, given>>

\* sum(tour_legs)
TourLength ==
    /\ pc = "length"
    /\ total' = SumSeq(tour_legs)
    /\ pc' = "done"
    /\ UNCHANGED <<sites, distances, prob, x, u, status, sites_left, org, tour,
                   tour_legs, raised, spinning, given>>

\* ----------------------------------------------------- cycles and tests

RECURSIVE Orders(_)
\* The sequences that list every element of T once.
Orders(T) ==
    IF T = {} THEN {<<>>}
    ELSE UNION {{<<t>> \o o : o \in Orders(T \ {t})} : t \in T}

\* The orders in which a tour from 'org' can visit every site of S once.
Cycles(S) == {<<Origin>> \o o : o \in Orders(Range(S) \ {Origin})}

\* Cycles(S) of every site list, listed once.
CyclesOfList == [S \in SiteLists |-> Cycles(S)]

\* The edges of cycle c, the one back to its start included.
CycleEdges(c) == {<<c[i], c[(i % Len(c)) + 1]>> : i \in 1..Len(c)}

\* The visitation rank of every site of cycle c: 0 for 'org'.
Rank(c) == [s \in Range(c) |-> IndexOf(c, s) - 1]

\* The edges xv selects.
SelectedEdges(xv) == {p \in DOMAIN xv : xv[p] = 1}

\* x encodes cycle c: 1 on its edges, 0 elsewhere.
Encoding(keys, c) == [p \in keys |-> IF p \in CycleEdges(c) THEN 1 ELSE 0]

\* The sum of the distances along cycle c.
CycleCost(d, c) == SumOver(d, CycleEdges(c))

\* A test sets the variables to the encoding of a cycle in place of a solve.
EncodeTour ==
    /\ pc = "solve"
    /\ \E c \in Cycles(sites) :
          /\ given' = c
          /\ x' = Encoding(DOMAIN x, c)
    /\ pc' = "tour"
    /\ UNCHANGED <<sites, distances, prob, u, status, sites_left, org, tour,
                   tour_legs, total, raised, spinning>>

\* -------------------------------------------------------- specifications

Build ==
    \/ CreateVariables
    \/ Objective
    \/ DegreeConstraints
    \/ OrderVariables
    \/ SubtourElimination

Decode ==
    \/ TourStart
    \/ TourPass
    \/ TourClose
    \/ TourLength

\* The notebook on every site list; every answer of the solver.
Next ==
    \/ GenerateDistances(RandomDistances(sites, MaxExcess))
    \/ Build
    \/ SolveOptimal
    \/ SolveInfeasible
    \/ \E st \in {LpStatusNotSolved, LpStatusUndefined} : SolveFails(st)
    \/ Decode

Spec == Init /\ [][Next]_vars

\* The cells after the distances cell, run on a supplied mapping; the solver
\* answers.
NextSupplied ==
    \/ SupplyDistances
    \/ Build
    \/ SolveOptimal
    \/ SolveInfeasible
    \/ Decode

SpecSupplied == Init /\ [][NextSupplied]_vars

\* The notebook on the inputs it is written for, a test encoding a cycle in
\* place of the solve.
NextTour ==
    \/ GenerateDistances(RandomDistances(sites, MaxExcess))
    \/ Build
    \/ EncodeTour
    \/ Decode

SpecTour == InitValid /\ [][NextTour]_vars

\* The notebook on the inputs it is written for; the solver answers.
NextOpt ==
    \/ GenerateDistances(RandomDistances(sites, MaxExcess))
    \/ Build
    \/ SolveOptimal
    \/ Decode

SpecOpt == InitValid /\ [][NextOpt]_vars

\* ---------------------------------------------------- terms of the claims

\* The solve cell has run and left a 0/1 value in every edge variable.
Assigned == pc \notin {"distances", "variables", "objective", "degree", "order",
                       "subtour", "solve"} /\ x \in Assignments(DOMAIN x)

\* The tour cell has appended the closing 'org': the cell went on to the
\* legs, or the computation of the legs raised (the loop had emptied
\* sites_left, which no other raise of the cell follows).
Closed ==
    \/ pc \in {"length", "done"}
    \/ pc = "raised" /\ tour # <<>> /\ sites_left = <<>>

\* The selected edges are exactly the edges of one cycle through every site.
IsHamiltonian(S, xv) ==
    /\ Cardinality(SelectedEdges(xv)) = Len(S)
    /\ \E c \in CyclesOfList[S] : SelectedEdges(xv) = CycleEdges(c)

RECURSIVE Reach(_, _)
\* The sites reached from the sites of T along edges of E, T included.
Reach(E, T) ==
    LET more == T \cup {p[2] : p \in {q \in E : q[1] \in T}}
    IN  IF more = T THEN T ELSE Reach(E, more)

\* The selected edges enter and leave every site once: disjoint cycles that
\* cover the sites.  SubCycles is the set of those cycles, as sets of sites.
CoversByCycles(S, xv) ==
    \A s \in Range(S) :
        /\ Cardinality({p \in SelectedEdges(xv) : p[1] = s}) = 1
        /\ Cardinality({p \in SelectedEdges(xv) : p[2] = s}) = 1

SubCycles(S, xv) == {Reach(SelectedEdges(xv), {s}) : s \in Range(S)}

\* xv meets every constraint prob holds while only the degree cell has run.
MeetsDegreeOnly(xv) == \A c \in prob.constraints : Holds(c, xv, EmptyDict)

\* How many selected edges leave site s.
OutCount(xv, s) == Cardinality({p \in SelectedEdges(xv) : p[1] = s})

\* Some pair of sites has different distances in its two directions.
Asymmetric(d) == \E p \in DOMAIN d : d[p] # d[<<p[2], p[1]>>]

\* d with distance(i,j) and distance(j,i) swapped for the pairs of P.
Swapped(d, P) ==
    [p \in DOMAIN d |->
        IF p \in P \/ <<p[2], p[1]>> \in P THEN d[<<p[2], p[1]>>] ELSE d[p]]

\* The least objective value over the feasible region, were the distances d.
Optimum(d) ==
    LET obj  == [p \in DOMAIN d |-> CostCoefficient(d, p)]
        vals == {ObjectiveValue(obj, xv) : xv \in Region}
    IN  CHOOSE v \in vals : \A w \in vals : v <= w

\* The cycles of least cost.
CheapestCycles(S, d) ==
    LET costed == {<<c, CycleCost(d, c)>> : c \in CyclesOfList[S]}
        least  == {p \in costed : \A q \in costed : p[2] <= q[2]}
    IN  {p[1] : p \in least}

\* The edges of two sub-cycles: the first two sites of S joined to each other,
\* the others in a ring.
SplitEdges(S) ==
    {<<S[1], S[2]>>, <<S[2], S[1]>>}
    \cup {<<S[i], S[IF i = Len(S) THEN 3 ELSE i + 1]>> : i \in 3..Len(S)}

\* The assignment that selects the edges of SplitEdges(S).
Split(keys, S) == [p \in keys |-> IF p \in SplitEdges(S) THEN 1 ELSE 0]

\* The input the notebook is written for: org and two more sites or more.
ValidSites == N >= 3 /\ Origin \in Range(sites)

\* The feasible region looked up for a full set of distances is the feasible
\* region of the constraints prob holds.
RegionLookupAgrees ==
    pc = "solve" => Region = FeasibleRegion(prob.constraints, u, DOMAIN x)

\* ------------------------------------------------------------ the claims

\* C1: for N >= 3 and org among the sites, a 0/1 assignment to the edge
\* variables extends by order values within [0, N-1] to a solution of every
\* generated constraint exactly when its selected edges form one Hamiltonian
\* cycle: the model handed to the solver holds the constraints and bounds of
\* its site list, whose feasible assignments, out of all 0/1 assignments, are
\* the encodings of the cycles through every site; and the assignment the
\* solver leaves is feasible exactly when it is such a cycle.
C1_FeasibleIffHamiltonian ==
    /\ pc = "solve" =>
          /\ prob.constraints = ConstraintsOf(sites)
          /\ u = OrderBoundsOf(sites)
          /\ Region = {Encoding(DOMAIN x, c) : c \in CyclesOfList[sites]}
    /\ pc = "tour" => (x \in Region <=> IsHamiltonian(sites, x))

\* C1 witness: four sites; the solver's assignment is one cycle, and the
\* assignment of two sub-cycles meets the degree constraints and no order
\* values make it meet the subtour constraints.
C1_Witness ==
    /\ pc = "tour"
    /\ N = 4
    /\ IsHamiltonian(sites, x)
    /\ CoversByCycles(sites, Split(DOMAIN x, sites))
    /\ Cardinality(SubCycles(sites, Split(DOMAIN x, sites))) = 2
    /\ ~Satisfiable(prob.constraints, u, Split(DOMAIN x, sites))

\* C2 as stated: for N >= 3 the degree constraints alone admit an assignment
\* whose selected edges form two or more disjoint sub-cycles.
C2_SubtoursFromThree ==
    (pc = "order" /\ N >= 3) =>
        \E xv \in Assignments(DOMAIN x) :
            /\ MeetsDegreeOnly(xv)
            /\ CoversByCycles(sites, xv)
            /\ Cardinality(SubCycles(sites, xv)) >= 2

\* C2 amended: for N >= 4 the degree constraints alone admit an assignment
\* whose selected edges form two or more disjoint sub-cycles: the one that
\* joins the first two sites to each other and the other sites in a ring.
C2_SubtoursFromFour ==
    (pc = "order" /\ N >= 4) =>
        LET xv == Split(DOMAIN x, sites)
        IN  /\ xv \in Assignments(DOMAIN x)
            /\ MeetsDegreeOnly(xv)
            /\ CoversByCycles(sites, xv)
            /\ Cardinality(SubCycles(sites, xv)) >= 2

\* C2 witness: the degree cell has run on four sites with unequal distances,
\* and the assignment of two sub-cycles meets what it built.
C2_Witness ==
    /\ pc = "order"
    /\ N = 4
    /\ Asymmetric(distances)
    /\ prob.constraints # {}
    /\ MeetsDegreeOnly(Split(DOMAIN x, sites))
    /\ SubCycles(sites, Split(DOMAIN x, sites)) = {{sites[1], sites[2]}, {sites[3], sites[4]}}

\* C3: from an assignment that satisfies every constraint, the tour loop never
\* passes without progress and never raises, and it ends with N+1 sites, org
\* first and last, every other site once, each leg a selected edge.
C3_DecodesFeasible ==
    (Assigned /\ x \in Region) =>
        /\ ~spinning
        /\ raised = "none"
        /\ pc = "while" => Len(tour) + Len(sites_left) = N
        /\ Closed =>
              /\ Len(tour) = N + 1
              /\ tour[1] = Origin
              /\ tour[N + 1] = Origin
              /\ \A s \in Range(sites) \ {Origin} :
                    Cardinality({i \in 2..N : tour[i] = s}) = 1
              /\ \A i \in 1..N : x[<<tour[i], tour[i + 1]>>] = 1

\* C3 witness: the notebook ran to its end on a feasible assignment of four
\* sites that is not an optimum of the distances drawn.
C3_Witness ==
    /\ pc = "done"
    /\ N = 4
    /\ Satisfiable(prob.constraints, u, x)
    /\ x \notin Minimizers(prob.objective, Region)
    /\ Len(tour) = 5

\* C4: the encoding of any cycle from org (1 on its edges, 0 elsewhere) with
\* the visitation ranks as order values meets every degree equality, every
\* subtour inequality and the bounds of the variables, and the tour loop
\* gives the cycle back.
C4_RoundTrip ==
    given # <<>> =>
        /\ pc = "tour" =>
              /\ \A c \in prob.constraints : Holds(c, x, Rank(given))
              /\ \A s \in DOMAIN u :
                    u[s].lo <= Rank(given)[s] /\ Rank(given)[s] <= u[s].hi
              /\ x \in Assignments(DOMAIN x)
        /\ ~spinning
        /\ raised = "none"
        /\ Closed => tour = given \o <<Origin>>

\* C4 witness: a cycle of four sites that is not the order of the list came back.
C4_Witness ==
    /\ given # <<>>
    /\ pc = "done"
    /\ N = 4
    /\ given # sites
    /\ tour = given \o <<Origin>>

\* C5: when one cycle is strictly the cheapest, the solved and decoded tour is
\* that cycle from org back to org, and the total of its legs is the cycle's
\* cost and the objective value.
C5_UniqueOptimum ==
    (Assigned /\ status = LpStatusOptimal
       /\ (Closed \/ spinning \/ raised # "none")) =>
        LET best == CheapestCycles(sites, distances)
        IN  Cardinality(best) = 1 =>
                \A c \in best :
                    /\ ~spinning
                    /\ raised = "none"
                    /\ tour = c \o <<Origin>>
                    /\ pc = "done" =>
                          /\ total = CycleCost(distances, c)
                          /\ total = ObjectiveValue(prob.objective, x)

\* C5 witness: four sites, one strictly cheapest cycle whose reverse costs
\* more, and the notebook ended with it.
C5_Witness ==
    /\ pc = "done"
    /\ N = 4
    /\ Cardinality(CheapestCycles(sites, distances)) = 1
    /\ \E c \in CheapestCycles(sites, distances) :
          /\ tour = c \o <<Origin>>
          /\ total = CycleCost(distances, c)
          /\ total < SumOver(distances, {<<p[2], p[1]>> : p \in CycleEdges(c)})

\* C6 as stated: for an asymmetric matrix, swapping distance(i,j) and
\* distance(j,i) changes the optimum -- read generously: some swap of
\* asymmetric pairs, one, several or all of them, changes it.
C6_SwapChangesOptimum ==
    (pc = "done" /\ Asymmetric(distances)) =>
        \E P \in SUBSET {p \in DOMAIN distances :
                            distances[p] # distances[<<p[2], p[1]>>]} :
            P # {} /\ Optimum(Swapped(distances, P)) # total

\* C6 amended: swapping distance(i,j) and distance(j,i) for every pair leaves
\* the optimum unchanged: the model handed to the solver has the same least
\* objective value for the swapped matrix, and the total the notebook reports
\* is the objective value of the optimum the solver found.
C6_TransposeKeepsOptimum ==
    /\ pc = "solve" =>
          Optimum(distances) = Optimum(Swapped(distances, DOMAIN distances))
    /\ (pc = "done" /\ status = LpStatusOptimal) =>
          total = ObjectiveValue(prob.objective, x)

\* C6 witness: an asymmetric matrix of four sites whose reported tour costs
\* more backwards, and whose optimum the swap of every pair keeps.
C6_Witness ==
    /\ pc = "done"
    /\ N = 4
    /\ Asymmetric(distances)
    /\ SumOver(distances, {<<p[2], p[1]>> : p \in SelectedEdges(x)}) > total
    /\ total = Optimum(Swapped(distances, DOMAIN distances))

\* C7: a distance mapping that lacks a pair never reaches the solver: the
\* model of a valid site list is handed over only when every ordered pair has
\* its distance.
C7_MissingDistanceRejected ==
    (ValidSites /\ pc \in {"solve", "tour", "while", "length", "done", "raised"})
        => IsComplete(sites, distances)

\* C8: on a valid input, the tour loop never passes without progress, and
\* every step it took left a site with exactly one selected outbound edge.
C8_DecodeRejectsAmbiguity ==
    (ValidSites /\ IsComplete(sites, distances)
       /\ pc \in {"while", "length", "done"}) =>
        /\ ~spinning
        /\ \A i \in 1..(Len(tour) - (IF Closed THEN 2 ELSE 1)) :
              OutCount(x, tour[i]) = 1

\* C9: with fewer than three sites, or without org among them, no constraint
\* is built, nothing is solved and no tour is begun.
C9_InvalidInputRejected ==
    ~ValidSites =>
        /\ prob.constraints = {}
        /\ pc \notin {"tour", "while", "length", "done"}
        /\ tour = <<>>

\* C10: on a valid input, the tour cell runs only on an Optimal status.
C10_DecodeOnlyWhenOptimal ==
    (ValidSites /\ IsComplete(sites, distances)
       /\ pc \in {"while", "length", "done", "raised"}) =>
        status = LpStatusOptimal

====
